---- MODULE Spec2Model ----
(***************************************************************************)
(* A model of epub_to_text.py: the conversion of one EPUB package to one   *)
(* text file.  Strings are sequences of one-character strings, so that     *)
(* lengths, substring scans and the regular-expression passes are computed *)
(* as the program computes them.                                           *)
(***************************************************************************)
EXTENDS Integers, Sequences, FiniteSets, TLC

VARIABLES
    fs_epub,          \* what is at epub_path: NoEpub, NotAnEpub, or a package
    out_dir,          \* the directory of output_path: "missing" or "exists"
    out_file,         \* what is at output_path: NoFile or the file's characters
    bs4_skips_script, \* the installed BeautifulSoup's get_text() leaves out
                      \* the strings of script and style elements
    pc,               \* position of the run in main / epub_to_text
    reader_called,    \* epub.read_epub has been invoked               (line 22)
    book,             \* the package read_epub returned                (line 22)
    book_title,       \*                                               (line 25)
    chapter_number,   \*                                               (line 28)
    full_text,        \* the list of fragments                         (line 29)
    idx,              \* position of the for loop in book.get_items()  (line 53)
    exc,              \* the exception in flight, NoException when there is none
    stdout,           \* lines printed to the output stream
    stderr,           \* lines printed to the error stream
    exit_code,        \* the process's exit code, -1 while it runs
    n_in,       \* normalisation harness: the text handed to the clean-up passes
    n_pass1,    \* ... after re.sub(r'\s+', ' ', text).strip()      (line 47)
    n_once,     \* ... after re.sub(r'\n\s*\n', '\n\n', text)       (line 48)
    n_twice,    \* ... after both passes applied a second time
    n_pc        \* position of the harness

nvars == <<n_in, n_pass1, n_once, n_twice, n_pc>>

env == <<fs_epub, bs4_skips_script>>

rvars == <<fs_epub, out_dir, out_file, bs4_skips_script, pc, reader_called, book,
          book_title, chapter_number, full_text, idx, exc, stdout, stderr,
          exit_code>>

vars == <<rvars, nvars>>

(***************************************************************************)
(* Bounds of the model.                                                    *)
(***************************************************************************)
MaxLen == 5
MaxItems == 3

(***************************************************************************)
(* Program constants.                                                      *)
(***************************************************************************)
MinTextLength == 100      \* line 65
MaxTitleLength == 100     \* line 75

(***************************************************************************)
(* Characters.  Python's \s (str patterns) and str.strip() use the same    *)
(* whitespace class; these are its ASCII members that TLA+ strings can     *)
(* write.                                                                  *)
(***************************************************************************)
Whitespace == {" ", "\t", "\n", "\r", "\f"}

IsSpace(c) == c \in Whitespace

\* the pieces ss[lo..hi] put end to end
RECURSIVE ConcatRange(_, _, _)
ConcatRange(ss, lo, hi) ==
    IF lo > hi THEN <<>>
    ELSE IF lo = hi THEN ss[lo]
    ELSE LET mid == (lo + hi) \div 2
         IN  ConcatRange(ss, lo, mid) \o ConcatRange(ss, mid + 1, hi)

Concat(ss) == ConcatRange(ss, 1, Len(ss))

\* str.strip() (lines 47, 65, 74): drop leading and trailing whitespace.
strip(s) ==
    IF \A i \in 1..Len(s) : IsSpace(s[i]) THEN <<>>
    ELSE LET lo == CHOOSE i \in 1..Len(s) :
                       ~IsSpace(s[i]) /\ \A j \in 1..(i - 1) : IsSpace(s[j])
             hi == CHOOSE i \in 1..Len(s) :
                       ~IsSpace(s[i]) /\ \A j \in (i + 1)..Len(s) : IsSpace(s[j])
         IN  SubSeq(s, lo, hi)

\* re.sub(r'\s\s', ' ', text): pairs of whitespace instead of maximal runs.
RECURSIVE sub_ws_pairs_from(_, _)
sub_ws_pairs_from(s, i) ==
    IF i > Len(s) THEN <<>>
    ELSE IF IsSpace(s[i]) /\ i < Len(s) /\ IsSpace(s[i + 1])
         THEN <<" ">> \o sub_ws_pairs_from(s, i + 2)
         ELSE <<s[i]>> \o sub_ws_pairs_from(s, i + 1)

sub_ws_pairs(s) == sub_ws_pairs_from(s, 1)

\* re.sub(r'\s+', ' ', text) (line 47): every maximal run of whitespace
\* becomes one blank.
sub_ws_runs(s) ==
    Concat([i \in 1..Len(s) |->
               IF ~IsSpace(s[i]) THEN <<s[i]>>
               ELSE IF i > 1 /\ IsSpace(s[i - 1]) THEN <<>>
               ELSE <<" ">>])

\* re.sub(r'\n\s*\n', '\n\n', text) (line 48).  A match lies inside one
\* maximal run of whitespace: the leftmost match starts at the run's first
\* newline, the greedy \s* backtracks to the run's last newline, and what is
\* left of the run has no newline.  So a run with two or more newlines has
\* the stretch from its first to its last newline replaced by two newlines,
\* and nothing else changes.
sub_para_breaks(s) ==
    LET RunStart(i) == CHOOSE j \in 1..i :
                           /\ \A k \in j..i : IsSpace(s[k])
                           /\ (j = 1 \/ ~IsSpace(s[j - 1]))
        RunEnd(i) == CHOOSE j \in i..Len(s) :
                         /\ \A k \in i..j : IsSpace(s[k])
                         /\ (j = Len(s) \/ ~IsSpace(s[j + 1]))
        Newlines(i) == {k \in RunStart(i)..RunEnd(i) : s[k] = "\n"}
        First(i) == CHOOSE k \in Newlines(i) : \A m \in Newlines(i) : k <= m
        Last(i) == CHOOSE k \in Newlines(i) : \A m \in Newlines(i) : m <= k
    IN  Concat([i \in 1..Len(s) |->
                   IF ~IsSpace(s[i]) THEN <<s[i]>>
                   ELSE IF Cardinality(Newlines(i)) < 2 THEN <<s[i]>>
                   ELSE IF i < First(i) \/ i > Last(i) THEN <<s[i]>>
                   ELSE IF i = First(i) THEN <<"\n", "\n">>
                   ELSE <<>>])

\* line 47 without its .strip()
collapse_no_strip(s) == sub_ws_runs(s)

\* line 47 as a whole
collapse_whitespace(s) == strip(sub_ws_runs(s))

\* lines 46-48: the clean-up of whitespace in clean_html_content
normalize_whitespace(s) == sub_para_breaks(collapse_whitespace(s))

(***************************************************************************)
(* Text helpers.                                                           *)
(***************************************************************************)
Contains(s, sub) ==
    \E i \in 1..(Len(s) - Len(sub) + 1) : SubSeq(s, i, i + Len(sub) - 1) = sub

StartsWith(s, p) == Len(s) >= Len(p) /\ SubSeq(s, 1, Len(p)) = p

UpperCase == <<"A", "B", "C", "D", "E", "F", "G", "H", "I", "J", "K", "L", "M",
               "N", "O", "P", "Q", "R", "S", "T", "U", "V", "W", "X", "Y", "Z">>
LowerCase == <<"a", "b", "c", "d", "e", "f", "g", "h", "i", "j", "k", "l", "m",
               "n", "o", "p", "q", "r", "s", "t", "u", "v", "w", "x", "y", "z">>

LowerChar(c) ==
    IF \E k \in 1..Len(UpperCase) : UpperCase[k] = c
    THEN LowerCase[CHOOSE k \in 1..Len(UpperCase) : UpperCase[k] = c]
    ELSE c

\* str.lower() (line 59)
lower(s) == [i \in 1..Len(s) |-> LowerChar(s[i])]

Digits == <<"0", "1", "2", "3", "4", "5", "6", "7", "8", "9">>

\* the decimal text an f-string gives a non-negative int (lines 82, 84)
RECURSIVE str(_)
str(n) == IF n < 10 THEN <<Digits[n + 1]>>
          ELSE str(n \div 10) \o <<Digits[(n % 10) + 1]>>

\* '\n'.join(full_text) (line 95)
RECURSIVE join(_)
join(parts) ==
    IF parts = <<>> THEN <<>>
    ELSE IF Len(parts) = 1 THEN parts[1]
    ELSE parts[1] \o <<"\n">> \o join(Tail(parts))

(***************************************************************************)
(* Markup.  A document's markup is kept as the tree html.parser builds     *)
(* from it: a sequence of nodes, a node being a string ("#text") or an     *)
(* element with its attribute text and its children.  RawMarkup writes the *)
(* tree back as the characters of the decoded content.                     *)
(***************************************************************************)
Text(s) == [tag |-> "#text", attrs |-> <<>>, kids |-> <<>>, text |-> s]

Elem(tag, attrs, kids) == [tag |-> tag, attrs |-> attrs, kids |-> kids, text |-> <<>>]

TagChars ==
    [h1 |-> <<"h", "1">>, h2 |-> <<"h", "2">>, h3 |-> <<"h", "3">>,
     h4 |-> <<"h", "4">>, p |-> <<"p">>,
     script |-> <<"s", "c", "r", "i", "p", "t">>,
     style |-> <<"s", "t", "y", "l", "e">>]

RECURSIVE RawMarkup(_)
RawMarkup(nodes) ==
    IF nodes = <<>> THEN <<>>
    ELSE LET n == Head(nodes)
             here == IF n.tag = "#text" THEN n.text
                     ELSE <<"<">> \o TagChars[n.tag] \o n.attrs \o <<">">>
                          \o RawMarkup(n.kids)
                          \o <<"<", "/">> \o TagChars[n.tag] \o <<">">>
         IN  here \o RawMarkup(Tail(nodes))

\* lines 40-41: every element with one of the tags is removed with all it holds
RECURSIVE decompose(_, _)
decompose(nodes, tags) ==
    IF nodes = <<>> THEN <<>>
    ELSE LET n == Head(nodes)
         IN  IF n.tag \in tags THEN decompose(Tail(nodes), tags)
             ELSE IF n.tag = "#text" THEN <<n>> \o decompose(Tail(nodes), tags)
             ELSE <<[n EXCEPT !.kids = decompose(n.kids, tags)]>>
                  \o decompose(Tail(nodes), tags)

\* get_text() (lines 44, 74): the strings below the nodes, in document order.
\* BeautifulSoup gives the strings inside script and style elements their
\* own classes since release 4.9.0 and get_text() then leaves them out;
\* earlier releases return them.  `skips` says which behaviour the installed
\* release has; `parent` is the tag of the element that holds the nodes.
RECURSIVE get_text(_, _, _)
get_text(nodes, parent, skips) ==
    IF nodes = <<>> THEN <<>>
    ELSE LET n == Head(nodes)
             here == IF n.tag = "#text"
                     THEN IF skips /\ parent \in {"script", "style"}
                          THEN <<>> ELSE n.text
                     ELSE get_text(n.kids, n.tag, skips)
         IN  here \o get_text(Tail(nodes), parent, skips)

\* find_all([...]) (line 71): the elements with one of the tags, in document
\* order, nested ones included
RECURSIVE find_all(_, _)
find_all(nodes, tags) ==
    IF nodes = <<>> THEN <<>>
    ELSE LET n == Head(nodes)
         IN  IF n.tag = "#text" THEN find_all(Tail(nodes), tags)
             ELSE (IF n.tag \in tags THEN <<n>> ELSE <<>>)
                  \o find_all(n.kids, tags) \o find_all(Tail(nodes), tags)

(***************************************************************************)
(* The packages the model converts.                                        *)
(***************************************************************************)
Filler(n) == [i \in 1..n |-> IF i % 6 = 0 THEN " " ELSE "x"]

\* <h1>Intro</h1> and 104 characters of text: no keyword
D_Intro ==
    <<Elem("h1", <<>>, <<Text(<<"I", "n", "t", "r", "o">>)>>), Text(<<"\n", " ", " ">>),
      Elem("p", <<>>, <<Text(Filler(104))>>), Text(<<"\n">>)>>

\* <h2>Chapter One</h2>, the word "Chapter" and 100 characters of text
D_ChapterOne ==
    <<Elem("h2", <<>>, <<Text(<<"C", "h", "a", "p", "t", "e", "r", " ", "O", "n", "e">>)>>), Text(<<"\n">>),
      Elem("p", <<>>, <<Text(<<"C", "h", "a", "p", "t", "e", "r", " ", "\t">> \o Filler(100))>>)>>

\* a keyword in a heading, 99 characters of visible text
D_Short ==
    <<Elem("h1", <<>>, <<Text(<<"P", "r", "o", "l", "o", "g", "u", "e">>)>>), Text(<<"\n">>),
      Elem("p", <<>>, <<Text(Filler(89) \o <<"y">>)>>)>>

\* the keyword in an attribute only, no heading, exactly 100 characters of text
D_AttrOnly ==
    <<Elem("p", <<" ", "c", "l", "a", "s", "s", "=", "'", "C", "H", "A", "P", "T", "E", "R", "'">>, <<Text(Filler(100))>>), Text(<<"\n", "\n">>)>>

\* the keyword only in a script, which sits in a heading that is blank
\* otherwise; then a heading of 100 characters, two usable headings and a
\* style element
D_Script ==
    <<Elem("h1", <<>>, <<Elem("script", <<>>, <<Text(<<"v", "a", "r", " ", "c", "h", "a", "p", "t", "e", "r", ";">>)>>),
                         Text(<<" ", " ">>)>>),
      Elem("h2", <<>>, <<Text(Filler(100))>>),
      Elem("h3", <<>>, <<Text(<<" ", "P", "a", "r", "t", " ">>)>>),
      Elem("h3", <<>>, <<Text(<<"C", "o", "d", "a">>)>>),
      Elem("style", <<>>, <<Text(<<".", "k", "{", "}">>)>>),
      Elem("h4", <<>>, <<Text(<<"N", "o", "t", "e">>)>>)>>

Documents == {D_Intro, D_ChapterOne, D_Short, D_AttrOnly, D_Script}

\* an item of the package: its type, whether its bytes decode as UTF-8, and
\* the markup they hold
Items ==
    [type : {"DOCUMENT"}, decodable : {TRUE}, markup : Documents]
    \cup {[type |-> "DOCUMENT", decodable |-> FALSE, markup |-> <<>>],
          [type |-> "IMAGE", decodable |-> FALSE, markup |-> <<>>]}

TestBook == <<"T", "e", "s", "t", " ", "B", "o", "o", "k">>

\* the DC title metadata: a list of (value, attributes) pairs, possibly empty
TitleLists == {<<>>, << <<TestBook, <<>> >> >>}

ItemLists == UNION {[1..n -> Items] : n \in 0..MaxItems}

\* what can be at epub_path: nothing, a file that is no EPUB, or a package
NoEpub == [kind |-> "missing", titles |-> <<>>, items |-> <<>>]
NotAnEpub == [kind |-> "garbage", titles |-> <<>>, items |-> <<>>]
Packages == [kind : {"epub"}, titles : TitleLists, items : ItemLists]

\* what can be at output_path: nothing, or a file and its characters
NoFile == [exists |-> FALSE, data |-> <<>>]
File(data) == [exists |-> TRUE, data |-> data]
OldFile == File(<<"o", "l", "d">>)

NoException == [type |-> "", msg |-> <<>>]
epub_path == "book.epub"
output_path == "out/book.txt"

(***************************************************************************)
(* The steps of epub_to_text on one document item.                         *)
(***************************************************************************)
Keywords == {<<"c", "h", "a", "p", "t", "e", "r">>,
             <<"p", "r", "o", "l", "o", "g", "u", "e">>,
             <<"e", "p", "i", "l", "o", "g", "u", "e">>}

\* re.search(r'chapter|prologue|epilogue', ...) (line 59)
search_keywords(s) == \E kw \in Keywords : Contains(s, kw)

\* line 59 without its .lower(): a case-sensitive scan
looks_like_chapter_cased(content) == search_keywords(RawMarkup(content))

\* line 59: is_chapter, scanned over the raw markup, case-insensitively
looks_like_chapter(content) == search_keywords(lower(RawMarkup(content)))

\* lines 34-50
clean_html_content(html_content, skips) ==
    LET soup == decompose(html_content, {"script", "style"})
        text == get_text(soup, "[document]", skips)
    IN  normalize_whitespace(text)

\* line 65 with a limit of 10
too_short_10(text) == Len(strip(text)) < 10

\* line 65: the test that skips an item
too_short(text) == Len(strip(text)) < MinTextLength

\* lines 73-77 without the break: the last usable heading wins
last_chapter_title(content, skips) ==
    LET headers == find_all(content, {"h1", "h2", "h3"})
        RECURSIVE loop(_, _)
        loop(i, chapter_title) ==
            IF i > Len(headers) THEN chapter_title
            ELSE LET header_text ==
                         strip(get_text(headers[i].kids, headers[i].tag, skips))
                 IN  IF header_text # <<>> /\ Len(header_text) < MaxTitleLength
                     THEN loop(i + 1, <<header_text>>)
                     ELSE loop(i + 1, chapter_title)
    IN  loop(1, <<>>)

\* lines 69-77: chapter_title, <<>> for None and <<title>> for a title
extract_chapter_title(content, skips) ==
    LET headers == find_all(content, {"h1", "h2", "h3"})
        RECURSIVE loop(_)
        loop(i) ==
            IF i > Len(headers) THEN <<>>
            ELSE LET header_text ==
                         strip(get_text(headers[i].kids, headers[i].tag, skips))
                 IN  IF header_text # <<>> /\ Len(header_text) < MaxTitleLength
                     THEN <<header_text>>
                     ELSE loop(i + 1)
    IN  loop(1)

HeaderPrefix == <<"\n", "\n", "#", " ", "C", "h", "a", "p", "t", "e", "r", " ">>

\* lines 80-84: the header fragment of a section, if it gets one
chapter_marker(is_chapter, chapter_title, n) ==
    IF is_chapter
    THEN IF chapter_title # <<>>
         THEN <<HeaderPrefix \o str(n) \o <<":", " ">> \o chapter_title[1]
                \o <<"\n", "\n">>>>
         ELSE <<HeaderPrefix \o str(n) \o <<"\n", "\n">>>>
    ELSE <<>>

\* line 85 moved out of the if: every kept section takes a number
number_every_section(is_chapter, n) == n + 1

\* line 85: the counter after a kept section
next_chapter_number(is_chapter, n) == IF is_chapter THEN n + 1 ELSE n

\* lines 80-88 with the text appended before the header
text_then_marker(is_chapter, chapter_title, n, text) ==
    <<text>> \o chapter_marker(is_chapter, chapter_title, n)

\* lines 80-88: what a kept section appends to full_text
section_fragments(is_chapter, chapter_title, n, text) ==
    chapter_marker(is_chapter, chapter_title, n) \o <<text>>

\* The three results above depend on the document (and the release of the
\* parser) alone: they are computed once for each document of the model.
IsChapterOf == [d \in Documents |-> looks_like_chapter(d)]

CleanTextOf == [d \in Documents |-> [skips \in BOOLEAN |-> clean_html_content(d, skips)]]

ChapterTitleOf == [d \in Documents |-> [skips \in BOOLEAN |-> extract_chapter_title(d, skips)]]

(***************************************************************************)
(* The run: main calls epub_to_text inside its try block.                  *)
(***************************************************************************)
Raise(type, msg) == [type |-> type, msg |-> msg]

Init ==
    /\ fs_epub \in {NoEpub, NotAnEpub} \cup Packages
    /\ out_dir \in {"missing", "exists"}
    /\ out_file \in (IF out_dir = "exists" THEN {NoFile, OldFile} ELSE {NoFile})
    /\ bs4_skips_script \in BOOLEAN
    /\ pc = "check"
    /\ reader_called = FALSE
    /\ book = <<>>
    /\ book_title = <<>>
    /\ chapter_number = 0
    /\ full_text = <<>>
    /\ idx = 1
    /\ exc = NoException
    /\ stdout = <<>>
    /\ stderr = <<>>
    /\ exit_code = -1
    /\ n_in = <<>>
    /\ n_pass1 = <<>>
    /\ n_once = <<>>
    /\ n_twice = <<>>
    /\ n_pc = "idle"

\* lines 18-19 left out: the path goes to the reader unchecked
CheckInputSkipped ==
    /\ pc = "check"
    /\ pc' = "read"
    /\ UNCHANGED <<env, out_dir, out_file, reader_called, book, book_title,
                   chapter_number, full_text, idx, exc, stdout, stderr, exit_code>>
    /\ UNCHANGED nvars

\* lines 18-19
CheckInput ==
    /\ pc = "check"
    /\ IF fs_epub = NoEpub
       THEN /\ exc' = Raise("FileNotFoundError",
                            <<"EPUB file not found: ", epub_path>>)
            /\ pc' = "except"
       ELSE /\ pc' = "read"
            /\ UNCHANGED exc
    /\ UNCHANGED <<env, out_dir, out_file, reader_called, book, book_title,
                   chapter_number, full_text, idx, stdout, stderr, exit_code>>
    /\ UNCHANGED nvars

\* line 22: the container reader; it raises for what is not an EPUB package
ReadEpub ==
    /\ pc = "read"
    /\ reader_called' = TRUE
    /\ IF fs_epub = NoEpub
       THEN /\ exc' = Raise("FileNotFoundError",
                            <<"[Errno 2] No such file or directory: ", epub_path>>)
            /\ pc' = "except"
            /\ UNCHANGED book
       ELSE IF fs_epub = NotAnEpub
       THEN /\ exc' = Raise("EpubException", <<"Bad Zip file">>)
            /\ pc' = "except"
            /\ UNCHANGED book
       ELSE /\ book' = <<fs_epub>>
            /\ pc' = "title"
            /\ UNCHANGED exc
    /\ UNCHANGED <<env, out_dir, out_file, book_title, chapter_number, full_text,
                   idx, stdout, stderr, exit_code>>
    /\ UNCHANGED nvars

\* lines 25-32
GetTitle ==
    /\ pc = "title"
    /\ IF book[1].titles = <<>>
       THEN /\ exc' = Raise("IndexError", <<"list index out of range">>)
            /\ pc' = "except"
            /\ UNCHANGED <<book_title, chapter_number, full_text>>
       ELSE /\ book_title' = book[1].titles[1][1]
            /\ chapter_number' = 1
            /\ full_text' = <<<<"#", " ">> \o book[1].titles[1][1] \o <<"\n", "\n">>>>
            /\ pc' = "loop"
            /\ UNCHANGED exc
    /\ UNCHANGED <<env, out_dir, out_file, reader_called, book, idx, stdout,
                   stderr, exit_code>>
    /\ UNCHANGED nvars

\* lines 53-88: one pass of the for loop
ProcessItem ==
    /\ pc = "loop"
    /\ idx <= Len(book[1].items)
    /\ LET item == book[1].items[idx]
       IN  IF item.type # "DOCUMENT"
           THEN /\ idx' = idx + 1
                /\ UNCHANGED <<pc, exc, chapter_number, full_text>>
           ELSE IF ~item.decodable
           THEN /\ exc' = Raise("UnicodeDecodeError",
                                <<"'utf-8' codec can't decode byte">>)
                /\ pc' = "except"
                /\ UNCHANGED <<idx, chapter_number, full_text>>
           ELSE LET content == item.markup
                    is_chapter == IsChapterOf[content]
                    text == CleanTextOf[content][bs4_skips_script]
                IN  IF too_short(text)
                    THEN /\ idx' = idx + 1
                         /\ UNCHANGED <<pc, exc, chapter_number, full_text>>
                    ELSE LET chapter_title == ChapterTitleOf[content][bs4_skips_script]
                         IN  /\ full_text' = full_text \o
                                     section_fragments(is_chapter, chapter_title,
                                                       chapter_number, text)
                             /\ chapter_number' =
                                     next_chapter_number(is_chapter, chapter_number)
                             /\ idx' = idx + 1
                             /\ UNCHANGED <<pc, exc>>
    /\ UNCHANGED <<env, out_dir, out_file, reader_called, book, book_title,
                   stdout, stderr, exit_code>>
    /\ UNCHANGED nvars

\* line 91: os.makedirs(..., exist_ok=True), which the system may refuse
MakeDirs ==
    /\ pc = "loop"
    /\ idx > Len(book[1].items)
    /\ \E ok \in BOOLEAN :
          IF ok
          THEN /\ out_dir' = "exists"
               /\ pc' = "open"
               /\ UNCHANGED exc
          ELSE /\ exc' = Raise("PermissionError",
                               <<"[Errno 13] Permission denied: ", "out">>)
               /\ pc' = "except"
               /\ UNCHANGED out_dir
    /\ UNCHANGED <<env, out_file, reader_called, book, book_title, chapter_number,
                   full_text, idx, stdout, stderr, exit_code>>
    /\ UNCHANGED nvars

\* line 94: open(output_path, 'w') creates the file or empties the one there
OpenOutput ==
    /\ pc = "open"
    /\ \E ok \in BOOLEAN :
          IF ok
          THEN /\ out_file' = File(<<>>)
               /\ pc' = "write"
               /\ UNCHANGED exc
          ELSE /\ exc' = Raise("PermissionError",
                               <<"[Errno 13] Permission denied: ", output_path>>)
               /\ pc' = "except"
               /\ UNCHANGED out_file
    /\ UNCHANGED <<env, out_dir, reader_called, book, book_title, chapter_number,
                   full_text, idx, stdout, stderr, exit_code>>
    /\ UNCHANGED nvars

\* how much of the data can be in the file when the write or the close that
\* flushes it fails: nothing, or a part of it
PartialLengths(data) == {0, Len(data) \div 2}

\* lines 94-95: f.write of the joined fragments and the close of the file
WriteOutput ==
    /\ pc = "write"
    /\ LET data == join(full_text)
       IN  \E written \in PartialLengths(data) \cup {Len(data)} :
              /\ out_file' = File(SubSeq(data, 1, written))
              /\ IF written = Len(data)
                 THEN /\ pc' = "return"
                      /\ UNCHANGED exc
                 ELSE /\ exc' = Raise("OSError",
                                      <<"[Errno 28] No space left on device">>)
                      /\ pc' = "except"
    /\ UNCHANGED <<env, out_dir, reader_called, book, book_title, chapter_number,
                   full_text, idx, stdout, stderr, exit_code>>
    /\ UNCHANGED nvars

\* lines 97, 127-132: the result is printed, and with -v the paths and the size
PrintResult ==
    /\ pc = "return"
    /\ \E verbose \in BOOLEAN :
          stdout' = << <<"Successfully converted '", book_title,
                         "' to text format at ", output_path>> >>
                    \o (IF verbose
                        THEN << <<"\nInput file: ", epub_path>>,
                                <<"Output file: ", output_path>>,
                                <<"File size: ", str(Len(out_file.data)), " bytes">> >>
                        ELSE <<>>)
    /\ exit_code' = 0
    /\ pc' = "exit"
    /\ UNCHANGED <<env, out_dir, out_file, reader_called, book, book_title,
                   chapter_number, full_text, idx, exc, stderr>>
    /\ UNCHANGED nvars

\* lines 134-136
HandleException ==
    /\ pc = "except"
    /\ stderr' = Append(stderr, <<"Error: ">> \o exc.msg)
    /\ exit_code' = 1
    /\ pc' = "exit"
    /\ UNCHANGED <<env, out_dir, out_file, reader_called, book, book_title,
                   chapter_number, full_text, idx, exc, stdout>>
    /\ UNCHANGED nvars

Next ==
    \/ CheckInput
    \/ ReadEpub
    \/ GetTitle
    \/ ProcessItem
    \/ MakeDirs
    \/ OpenOutput
    \/ WriteOutput
    \/ PrintResult
    \/ HandleException

Spec == Init /\ [][Next]_vars

(***************************************************************************)
(* What the properties of the run speak about.                             *)
(***************************************************************************)
\* the items the loop has been through
Processed == IF book = <<>> THEN <<>> ELSE SubSeq(book[1].items, 1, idx - 1)

\* a keyword somewhere in the raw markup, whatever the case of its letters
MatchesKeyword(content) ==
    LET raw == RawMarkup(content)
    IN  \E kw \in Keywords : \E i \in 1..(Len(raw) - Len(kw) + 1) :
            \A k \in 1..Len(kw) : LowerChar(raw[i + k - 1]) = kw[k]

MatchesKeywordOf == [d \in Documents |-> MatchesKeyword(d)]

\* the first h1/h2/h3 heading, in document order, whose trimmed text is not
\* empty and shorter than 100 characters: <<its text>>, or <<>> without one
FirstUsableHeading(content, skips) ==
    LET headers == find_all(content, {"h1", "h2", "h3"})
        TextOf(h) == strip(get_text(headers[h].kids, headers[h].tag, skips))
        usable == {h \in 1..Len(headers) :
                       TextOf(h) # <<>> /\ Len(TextOf(h)) < MaxTitleLength}
    IN  IF usable = {} THEN <<>>
        ELSE <<TextOf(CHOOSE h \in usable : \A g \in usable : h <= g)>>

FirstUsableHeadingOf ==
    [d \in Documents |-> [skips \in BOOLEAN |-> FirstUsableHeading(d, skips)]]

\* the strings inside the script and style elements of a document
RECURSIVE ScriptStrings(_, _)
ScriptStrings(nodes, parent) ==
    IF nodes = <<>> THEN {}
    ELSE LET n == Head(nodes)
             here == IF n.tag = "#text"
                     THEN IF parent \in {"script", "style"} THEN {n.text} ELSE {}
                     ELSE ScriptStrings(n.kids, n.tag)
         IN  here \cup ScriptStrings(Tail(nodes), parent)

ScriptStringsOf == [d \in Documents |-> ScriptStrings(d, "[document]")]

IsDocument(item) == item.type = "DOCUMENT" /\ item.decodable

NormalizedText(item) == CleanTextOf[item.markup][bs4_skips_script]

\* the item passes the length filter
IsKept(item) == IsDocument(item) /\ Len(NormalizedText(item)) >= MinTextLength

IsChapterSection(item) == IsKept(item) /\ MatchesKeywordOf[item.markup]

KeptItems == SelectSeq(Processed, IsKept)

IsHeader(fragment) == StartsWith(fragment, HeaderPrefix)

IsBody(fragment) == ~IsHeader(fragment)

Headers == SelectSeq(full_text, IsHeader)

\* the fragments after the title line that are no headers
Bodies == IF full_text = <<>> THEN <<>> ELSE SelectSeq(Tail(full_text), IsBody)

TitleLine == <<"#", " ">> \o TestBook \o <<"\n", "\n">>

\* the kept item whose text is the fragment at position p of full_text
ItemOfBody(p) == KeptItems[Cardinality({q \in 2..p : IsBody(full_text[q])})]

\* the number of the header at position p of full_text, counting headers
HeaderOrdinal(p) == Cardinality({q \in 2..p : IsHeader(full_text[q])})

Succeeded == pc = "exit" /\ exit_code = 0

\* the number of header lines in the text that was written
HeadersInOutput ==
    Cardinality({i \in 1..Len(out_file.data) :
                    i + Len(HeaderPrefix) - 1 <= Len(out_file.data)
                    /\ SubSeq(out_file.data, i, i + Len(HeaderPrefix) - 1) = HeaderPrefix})

(***************************************************************************)
(* Properties of the run.                                                  *)
(***************************************************************************)
\* C1: chapter numbers are dense and strictly increasing in item order: the
\* k-th header emitted carries the number k, whatever lies between chapters.
C1_DenseChapterNumbers ==
    /\ \A k \in 1..Len(Headers) :
          \/ StartsWith(Headers[k], HeaderPrefix \o str(k) \o <<":", " ">>)
          \/ Headers[k] = HeaderPrefix \o str(k) \o <<"\n", "\n">>
    /\ full_text # <<>> => chapter_number = Len(Headers) + 1

C1_Witness ==
    /\ Succeeded
    /\ Len(Processed) = 3
    /\ IsChapterSection(Processed[1])
    /\ ~IsChapterSection(Processed[2])
    /\ IsChapterSection(Processed[3])
    /\ Len(Headers) = 2

\* C2: the number of "# Chapter" headers equals the number of document
\* sections that pass the 100-character filter and match the keyword
\* heuristic on the raw markup, in the fragments and in the written text.
C2_HeaderCount ==
    LET matching == {i \in 1..Len(Processed) : IsChapterSection(Processed[i])}
    IN  /\ Len(Headers) = Cardinality(matching)
        /\ Succeeded => HeadersInOutput = Cardinality(matching)

C2_Witness ==
    /\ Succeeded
    /\ \E i \in 1..Len(Processed) :
          IsDocument(Processed[i]) /\ ~IsKept(Processed[i])
              /\ MatchesKeywordOf[Processed[i].markup]
    /\ \E i \in 1..Len(Processed) :
          IsKept(Processed[i]) /\ ~MatchesKeywordOf[Processed[i].markup]
    /\ \E i \in 1..Len(Processed) :
          IsChapterSection(Processed[i])
              /\ ~search_keywords(RawMarkup(Processed[i].markup))
    /\ HeadersInOutput = 1

\* C3: every section body in the output has at least 100 characters; an item
\* below the limit emits no fragment and takes no chapter number, so that a
\* package whose documents are all below it gives the title line alone.
C3_MinimumLength ==
    /\ \A j \in 1..Len(Bodies) : Len(Bodies[j]) >= MinTextLength
    /\ Len(Bodies) = Len(KeptItems)
    /\ \A p \in 2..Len(full_text) :
          IsHeader(full_text[p]) => p < Len(full_text) /\ IsBody(full_text[p + 1])
    /\ full_text # <<>> => chapter_number = Len(Headers) + 1
    /\ (full_text # <<>> /\ KeptItems = <<>>) =>
           /\ full_text = <<TitleLine>>
           /\ chapter_number = 1
           /\ (Succeeded => out_file = File(TitleLine))

C3_Witness ==
    /\ Succeeded
    /\ Len(Processed) = 2
    /\ \A i \in 1..Len(Processed) :
          IsDocument(Processed[i]) /\ ~IsKept(Processed[i])
              /\ MatchesKeywordOf[Processed[i].markup]
    /\ out_file = File(TitleLine)

\* C4: a run that fails leaves either the full text file or no output file
\* at the destination path (the file that was there before, if any, as it
\* was).
C4_AllOrNothing ==
    (pc = "exit" /\ exit_code = 1) =>
        \/ out_file \in {NoFile, OldFile}
        \/ out_file = File(join(full_text))

\* C5: a missing input is detected before the container reader is invoked
\* and before any directory or file is created or changed; the run ends with
\* exit code 1 and an error message holding "EPUB file not found".
C5_MissingInput ==
    /\ [](fs_epub = NoEpub =>
            /\ ~reader_called
            /\ pc = "exit" =>
                  /\ exit_code = 1
                  /\ Len(stderr) = 1
                  /\ stderr[1][1] = "Error: "
                  /\ stderr[1][2] = "EPUB file not found: "
                  /\ stdout = <<>>)
    /\ [][fs_epub = NoEpub => out_dir' = out_dir /\ out_file' = out_file]_vars

C5_Witness == fs_epub = NoEpub /\ pc = "exit" /\ exit_code = 1 /\ out_dir = "missing"

\* C6: no text from inside a script or style element of a processed document
\* appears in the output, neither in a section body nor in the title of a
\* chapter header.
C6_NoScriptText ==
    \A i \in 1..Len(Processed) :
        IsDocument(Processed[i]) =>
            \A hidden \in ScriptStringsOf[Processed[i].markup] :
                \A p \in 1..Len(full_text) : ~Contains(full_text[p], hidden)

\* C8: the fragments are an order-preserving fold of the items: the title
\* line first, the text of every kept section once and in item order, and a
\* header only for a chapter section, immediately before that section's text.
C8_OrderPreservingFold ==
    /\ full_text # <<>> => full_text[1] = <<"#", " ">> \o book[1].titles[1][1] \o <<"\n", "\n">>
    /\ Bodies = [j \in 1..Len(KeptItems) |-> NormalizedText(KeptItems[j])]
    /\ \A p \in 2..Len(full_text) :
          IF IsHeader(full_text[p])
          THEN /\ p < Len(full_text)
               /\ IsBody(full_text[p + 1])
               /\ IsChapterSection(ItemOfBody(p + 1))
          ELSE IsChapterSection(ItemOfBody(p)) <=> IsHeader(full_text[p - 1])
    /\ Succeeded => out_file.exists /\ StartsWith(out_file.data, full_text[1])

C8_Witness ==
    /\ Succeeded
    /\ Len(KeptItems) = 3
    /\ ~IsChapterSection(KeptItems[1])
    /\ IsChapterSection(KeptItems[2])
    /\ ~IsChapterSection(KeptItems[3])
    /\ Len(full_text) = 5

\* C9: a header reads "# Chapter n: title" exactly when the section is a
\* chapter and its markup has an h1/h2/h3 heading whose trimmed text is not
\* empty and shorter than 100 characters, the title being the first such
\* heading's text; otherwise it reads "# Chapter n"; a non-chapter section
\* gets no header, whatever title its markup has.
C9_TitleInHeader ==
    \A p \in 2..Len(full_text) :
        IF IsHeader(full_text[p])
        THEN /\ p < Len(full_text)
             /\ LET item == ItemOfBody(p + 1)
                    title == FirstUsableHeadingOf[item.markup][bs4_skips_script]
                    n == str(HeaderOrdinal(p))
                IN  /\ IsChapterSection(item)
                    /\ full_text[p] =
                          IF title # <<>>
                          THEN HeaderPrefix \o n \o <<":", " ">> \o title[1] \o <<"\n", "\n">>
                          ELSE HeaderPrefix \o n \o <<"\n", "\n">>
        ELSE ~IsChapterSection(ItemOfBody(p)) => ~IsHeader(full_text[p - 1])

C9_Witness ==
    /\ Succeeded
    /\ Len(KeptItems) = 3
    /\ \E i \in 1..3 :
          /\ IsChapterSection(KeptItems[i])
          /\ FirstUsableHeadingOf[KeptItems[i].markup][bs4_skips_script] = <<>>
    /\ \E i \in 1..3 :
          /\ IsChapterSection(KeptItems[i])
          /\ FirstUsableHeadingOf[KeptItems[i].markup][bs4_skips_script] = <<<<"P", "a", "r", "t">>>>
    /\ \E i \in 1..3 :
          /\ ~IsChapterSection(KeptItems[i])
          /\ FirstUsableHeadingOf[KeptItems[i].markup][bs4_skips_script] # <<>>

(***************************************************************************)
(* Harness for the whitespace clean-up: every text over a small alphabet.  *)
(***************************************************************************)
NormAlphabet == {"a", " ", "\n", "\t"}

NormInputs == UNION {[1..n -> NormAlphabet] : n \in 0..MaxLen}

NormInit ==
    /\ n_in \in NormInputs
    /\ n_pass1 = <<>>
    /\ n_once = <<>>
    /\ n_twice = <<>>
    /\ n_pc = "pass1"
    /\ fs_epub = NoEpub
    /\ out_dir = "missing"
    /\ out_file = NoFile
    /\ bs4_skips_script = TRUE
    /\ pc = "idle"
    /\ reader_called = FALSE
    /\ book = <<>>
    /\ book_title = <<>>
    /\ chapter_number = 0
    /\ full_text = <<>>
    /\ idx = 1
    /\ exc = NoException
    /\ stdout = <<>>
    /\ stderr = <<>>
    /\ exit_code = -1

NormPass1 ==
    /\ n_pc = "pass1"
    /\ n_pass1' = collapse_whitespace(n_in)
    /\ n_pc' = "pass2"
    /\ UNCHANGED <<n_in, n_once, n_twice>>
    /\ UNCHANGED rvars

NormPass2 ==
    /\ n_pc = "pass2"
    /\ n_once' = sub_para_breaks(n_pass1)
    /\ n_pc' = "again"
    /\ UNCHANGED <<n_in, n_pass1, n_twice>>
    /\ UNCHANGED rvars

NormAgain ==
    /\ n_pc = "again"
    /\ n_twice' = normalize_whitespace(n_once)
    /\ n_pc' = "done"
    /\ UNCHANGED <<n_in, n_pass1, n_once>>
    /\ UNCHANGED rvars

NormNext ==
    \/ NormPass1
    \/ NormPass2
    \/ NormAgain

SpecNorm == NormInit /\ [][NormNext]_vars

(***************************************************************************)
(* Properties of the whitespace clean-up.                                  *)
(***************************************************************************)
HasNewline(s) == \E i \in 1..Len(s) : s[i] = "\n"

\* No leading or trailing whitespace, and two adjacent whitespace characters
\* only as a paragraph break of exactly two newlines.
Collapsed(s) ==
    /\ s # <<>> => ~IsSpace(s[1]) /\ ~IsSpace(s[Len(s)])
    /\ \A i \in 1..(Len(s) - 1) :
          IsSpace(s[i]) /\ IsSpace(s[i + 1]) =>
              /\ s[i] = "\n" /\ s[i + 1] = "\n"
              /\ (i > 1 => ~IsSpace(s[i - 1]))
              /\ (i + 2 <= Len(s) => ~IsSpace(s[i + 2]))

\* C7: the whitespace normalisation is idempotent: applying the two regex
\* passes plus trim twice gives the same string as applying them once.
C7_Idempotent == n_pc = "done" => n_twice = n_once

C7_Witness ==
    /\ n_pc = "done"
    /\ n_once # n_in
    /\ n_once # <<>>
    /\ \E i \in 1..(Len(n_in) - 2) :
          IsSpace(n_in[i]) /\ IsSpace(n_in[i + 1]) /\ IsSpace(n_in[i + 2])

\* C10: the cleaned text has collapsed whitespace (no run of two or more
\* whitespace characters except a paragraph break of exactly two newlines,
\* nothing leading or trailing), and the paragraph-break pass changes
\* nothing, because the text holds no newline after the first pass.
C10_Collapsed ==
    n_pc \in {"again", "done"} =>
        /\ Collapsed(n_once)
        /\ ~HasNewline(n_pass1)
        /\ n_once = n_pass1

C10_Witness ==
    /\ n_pc = "again"
    /\ n_once # <<>>
    /\ \E i \in 1..(Len(n_in) - 2) :
          n_in[i] = "\n" /\ IsSpace(n_in[i + 1]) /\ n_in[i + 2] = "\n"
             /\ i > 1 /\ ~IsSpace(n_in[i - 1]) /\ i + 2 < Len(n_in)

====
